---------------------------- MODULE Spec2Model ----------------------------
(***************************************************************************)
(* Model of the churn server (src/server/index.js): dataset reload          *)
(* (initData), the periodic tick (refreshState), the read handlers, and    *)
(* the pure functions they call (toModelRow, trainLogisticRegression,      *)
(* scoreRow, evaluateModel, summarizePlatform, getRiskDistribution,        *)
(* buildAlerts, nextBatch).                                                *)
(*                                                                         *)
(* Number conventions.  JavaScript numbers are modelled as integers:       *)
(*   - raw feature values, means, standardised values: whole numbers;      *)
(*   - weights, bias, the linear predictor z and the per-feature effects:  *)
(*     fixed point, Scale units per 1.0;                                   *)
(*   - churnRisk, bufferingRate, the model statistics and every mean that  *)
(*     the code rounds with toFixed(2): hundredths (34.00 is 3400);        *)
(*   - NaN is the one non-finite value the code can produce (0/0 when the  *)
(*     dataset has no rows); it is a distinguished value that every        *)
(*     arithmetic operator propagates and every comparison rejects.        *)
(***************************************************************************)
EXTENDS Integers, Sequences, FiniteSets, TLC

(***************************************************************************)
(* Bounds of the model.                                                    *)
(***************************************************************************)
MaxTicks == 32
MaxLiteral == 320
MaxEvalRows == 3

(***************************************************************************)
(* Program constants.                                                      *)
(***************************************************************************)
BatchSize == 45
WindowCap == 620
TrendCap == 24
FeedCap == 30
TopRiskCap == 14
AlertCap == 8
EvalThreshold == 50
LowMax == 34
MediumMax == 67
HighMax == 101
SegmentRiskAlert == 62
CohortAlert == 40
HashModulus == 2147483647
BufferingDivisor == 8
BufferingScale == 6
SatisfactionMin == 20
SatisfactionMax == 99
PremiumMinutes == 420
StandardMinutes == 210
DriverCap == 5

Scale == 1000 * 100
Hundred == 10 * 10

platforms == <<"Netflix", "Prime Video", "Disney+ Hotstar", "Crunchyroll", "Aha">>

featureDefs == <<
  [key |-> "account length",         name |-> "Account Tenure",      type |-> "num"],
  [key |-> "international plan",     name |-> "International Plan",  type |-> "boolYes"],
  [key |-> "voice mail plan",        name |-> "Voicemail Plan",      type |-> "boolYes"],
  [key |-> "number vmail messages",  name |-> "Voicemail Usage",     type |-> "num"],
  [key |-> "total day minutes",      name |-> "Day Usage",           type |-> "num"],
  [key |-> "total eve minutes",      name |-> "Evening Usage",       type |-> "num"],
  [key |-> "total night minutes",    name |-> "Night Usage",         type |-> "num"],
  [key |-> "total intl minutes",     name |-> "International Usage", type |-> "num"],
  [key |-> "customer service calls", name |-> "Service Calls",       type |-> "num"] >>

NumFeatures == Len(featureDefs)

(***************************************************************************)
(* JavaScript numbers.                                                     *)
(***************************************************************************)
NaN == 0 - 2000000000

IsNaN(x) == x = NaN

\* a + b
JsAdd(a, b) == IF IsNaN(a) \/ IsNaN(b) THEN NaN ELSE a + b

\* a - b
JsSub(a, b) == IF IsNaN(a) \/ IsNaN(b) THEN NaN ELSE a - b

\* a * b of two whole numbers, or of a fixed-point and a whole number
JsMul(a, b) == IF IsNaN(a) \/ IsNaN(b) THEN NaN ELSE a * b

\* a >= b: false when either side is NaN
JsGe(a, b) == ~IsNaN(a) /\ ~IsNaN(b) /\ a >= b

\* a > b
JsGt(a, b) == ~IsNaN(a) /\ ~IsNaN(b) /\ a > b

\* a < b
JsLt(a, b) == ~IsNaN(a) /\ ~IsNaN(b) /\ a < b

\* Math.abs
JsAbs(a) == IF IsNaN(a) THEN NaN ELSE IF a < 0 THEN 0 - a ELSE a

\* Math.max(a, b) and Math.min(a, b): NaN when either argument is NaN
JsMax(a, b) == IF IsNaN(a) \/ IsNaN(b) THEN NaN ELSE IF a >= b THEN a ELSE b

JsMin(a, b) == IF IsNaN(a) \/ IsNaN(b) THEN NaN ELSE IF a <= b THEN a ELSE b

\* Math.round(num / den) for den > 0: the nearest integer, halves towards +Infinity
MathRound(num, den) == (2 * num + den) \div (2 * den)

\* (num / den).toFixed(0) for den > 0: the nearest integer, halves away from zero
RoundDiv(num, den) ==
  IF num < 0 THEN 0 - MathRound(0 - num, den) ELSE MathRound(num, den)


(***************************************************************************)
(* Strings.  A field value is a string, or Undefined for a key the record  *)
(* does not have.                                                          *)
(***************************************************************************)
Undefined == "<undefined>"

\* row[key]
Field(row, key) == IF key \in DOMAIN row THEN row[key] ELSE Undefined

\* value || fallback, for a string or undefined value
OrElse(value, fallback) == IF value = Undefined \/ value = "" THEN fallback ELSE value

\* the decimal literals Number() parses to a finite whole number in this model
Literals == { ToString(n) : n \in (0 - MaxLiteral)..MaxLiteral }

LiteralValue == [ s \in Literals |-> CHOOSE n \in (0 - MaxLiteral)..MaxLiteral : ToString(n) = s ]

\* strings that Number() parses after stripping white space
PaddedLiterals == [ s \in {" 7 ", "3 ", " 12"} |->
                    CASE s = " 7 " -> 7 [] s = "3 " -> 3 [] s = " 12" -> 12 ]

\* Number(value): the empty string is 0, undefined and non-numeric text are NaN
\* (as is, here, every non-finite result such as "Infinity")
JsNumber(value) ==
  CASE value = ""                    -> 0
    [] value \in Literals            -> LiteralValue[value]
    [] value \in DOMAIN PaddedLiterals -> PaddedLiterals[value]
    [] OTHER                         -> NaN

\* value.trim().toLowerCase() on the spellings of the model's vocabulary
TrimLowerTable == [ s \in {"Yes", "YES", " yes", "yes ", " Yes ", "yEs",
                           "True", "TRUE", " true ", "False", "FALSE", "No", "NO", " no "} |->
                    CASE s \in {"Yes", "YES", " yes", "yes ", " Yes ", "yEs"} -> "yes"
                      [] s \in {"True", "TRUE", " true "} -> "true"
                      [] s \in {"False", "FALSE"} -> "false"
                      [] OTHER -> "no" ]

TrimLower(s) == IF s \in DOMAIN TrimLowerTable THEN TrimLowerTable[s] ELSE s

toNum(value) ==
  LET n == JsNumber(value) IN IF IsNaN(n) THEN 0 ELSE n

\* toBoolYes comparing the field as it is, neither trimmed nor lower-cased
toBoolYesExact(value) ==
  IF OrElse(value, "") = "yes" THEN 1 ELSE 0

toBoolYes(value) ==
  IF TrimLower(OrElse(value, "")) = "yes" THEN 1 ELSE 0

(***************************************************************************)
(* hashText over the UTF-16 code units of the text.                        *)
(***************************************************************************)
CharCode == [ c \in {"K", "S", "O", "H", "N", "J", "A", "-",
                     "0", "1", "2", "3", "4", "5", "6", "7", "8", "9"} |->
              CASE c = "K" -> 75 [] c = "S" -> 83 [] c = "O" -> 79 [] c = "H" -> 72
                [] c = "N" -> 78 [] c = "J" -> 74 [] c = "A" -> 65 [] c = "-" -> 45
                [] c = "0" -> 48 [] c = "1" -> 49 [] c = "2" -> 50 [] c = "3" -> 51
                [] c = "4" -> 52 [] c = "5" -> 53 [] c = "6" -> 54 [] c = "7" -> 55
                [] c = "8" -> 56 [] c = "9" -> 57 ]

\* the characters of the texts that are hashed
Chars == [ s \in {"KS", "OH", "NJ", "NA", "415", "408", "510", "000"} |->
           CASE s = "KS" -> <<"K", "S">> [] s = "OH" -> <<"O", "H">>
             [] s = "NJ" -> <<"N", "J">> [] s = "NA" -> <<"N", "A">>
             [] s = "415" -> <<"4", "1", "5">> [] s = "408" -> <<"4", "0", "8">>
             [] s = "510" -> <<"5", "1", "0">> [] s = "000" -> <<"0", "0", "0">> ]

Digit == <<"0", "1", "2", "3", "4", "5", "6", "7", "8", "9">>

RECURSIVE DecimalChars(_)
DecimalChars(n) ==
  IF n < 10 THEN << Digit[n + 1] >>
  ELSE Append(DecimalChars(n \div 10), Digit[(n % 10) + 1])

\* (a + b) % HashModulus for a, b in 0..HashModulus-1, without leaving 32 bits
AddMod(a, b) == IF a >= HashModulus - b THEN a - (HashModulus - b) ELSE a + b

\* (hash * 31) % HashModulus
TimesBase(h) ==
  LET h2  == AddMod(h, h)
      h4  == AddMod(h2, h2)
      h8  == AddMod(h4, h4)
      h16 == AddMod(h8, h8)
      h32 == AddMod(h16, h16)
  IN  IF h32 >= h THEN h32 - h ELSE h32 + (HashModulus - h)

RECURSIVE HashFrom(_, _, _)
HashFrom(chars, i, hash) ==
  IF i > Len(chars) THEN hash
  ELSE HashFrom(chars, i + 1, AddMod(TimesBase(hash), CharCode[chars[i]]))

hashText(chars) == HashFrom(chars, 1, 0)

(***************************************************************************)
(* Feature extraction.                                                     *)
(***************************************************************************)
featureValue(row, def) ==
  CASE def.type = "num"     -> toNum(Field(row, def.key))
    [] def.type = "boolYes" -> toBoolYes(Field(row, def.key))
    [] OTHER                -> 0

featureVector(row) == [ j \in 1..NumFeatures |-> featureValue(row, featureDefs[j]) ]

\* toModelRow(row, idx), idx counted from 0
toModelRow(row, idx) ==
  LET stateCode == OrElse(Field(row, "state"), "NA")
      areaCode  == OrElse(Field(row, "area code"), "000")
      text      == Chars[stateCode] \o <<"-">> \o Chars[areaCode] \o <<"-">> \o DecimalChars(idx)
      day       == toNum(Field(row, "total day minutes"))
      eve       == toNum(Field(row, "total eve minutes"))
      calls     == toNum(Field(row, "total day calls")) + toNum(Field(row, "total eve calls"))
                     + toNum(Field(row, "total night calls"))
  IN  [ id               |-> OrElse(Field(row, "phone number"), stateCode \o "-" \o ToString(idx)),
        state            |-> stateCode,
        platform         |-> platforms[(hashText(text) % Len(platforms)) + 1],
        tier             |-> IF day + eve > PremiumMinutes THEN "Premium"
                             ELSE IF day > StandardMinutes THEN "Standard" ELSE "Mobile",
        actualChurn      |-> IF TrimLower(Field(row, "churn")) = "true" THEN 1 ELSE 0,
        minutes          |-> day + eve + toNum(Field(row, "total night minutes"))
                               + toNum(Field(row, "total intl minutes")),
        serviceCalls     |-> toNum(Field(row, "customer service calls")),
        interactionPulse |-> MathRound(calls, 3),
        raw              |-> row ]


(***************************************************************************)
(* Training.  The 650 epochs of gradient descent over IEEE doubles are not  *)
(* computed here.  What the code fixes is kept: with n = 0 rows every mean *)
(* is 0/0, every gradient is 0/0 + l2*w and the bias step is 0/0, so       *)
(* weights, bias and means are NaN while every deviation is                *)
(* Math.sqrt(0) || 1 = 1; with n > 0 every parameter is finite and every   *)
(* deviation is non-zero, and one model with such parameters stands for    *)
(* the result.                                                             *)
(***************************************************************************)
Ones == [ j \in 1..NumFeatures |-> 1 ]

\* the model that stands for the result of training on one or more rows:
\* bias -0.66329; International Plan +1.37148, Voicemail Plan -0.70819,
\* Service Calls +3 around a mean of 2
FittedModel ==
  [ weights |-> <<0, 137148, 0 - 70819, 0, 0, 0, 0, 0, 3 * Scale>>,
    bias    |-> 0 - 66329,
    means   |-> <<0, 0, 0, 0, 0, 0, 0, 0, 2>>,
    stds    |-> Ones ]

\* sum / n of lines 211, 233 and 236 when the sum is 0
ZeroOver(n) == IF n = 0 THEN NaN ELSE 0

\* what the code computes for n = 0 rows: means[j] = 0 / 0, stds[j] = Math.sqrt(0) || 1,
\* and in every epoch w[j] -= lr * (0 / 0 + l2 * w[j]) and b -= lr * (0 / 0)
DegenerateModel ==
  [ weights |-> [ j \in 1..NumFeatures |-> ZeroOver(0) ],
    bias    |-> ZeroOver(0),
    means   |-> [ j \in 1..NumFeatures |-> ZeroOver(0) ],
    stds    |-> Ones ]

trainLogisticRegression(rows) ==
  IF Len(rows) = 0 THEN DegenerateModel ELSE FittedModel

(***************************************************************************)
(* Scoring.                                                                *)
(***************************************************************************)
\* Number((sigmoid(z) * 100).toFixed(2)) at z = k + r / Scale for k in -10..9,
\* in hundredths, as IEEE double arithmetic gives it
SigmoidTable ==
  [ r \in {0, 33671, 62852, 70819} |->
      CASE r = 0 ->
             <<0, 1, 3, 9, 25, 67, 180, 474, 1192, 2689,
               5000, 7311, 8808, 9526, 9820, 9933, 9975, 9991, 9997, 9999>>
        [] r = 33671 ->
             <<1, 2, 5, 13, 35, 93, 250, 652, 1593, 3400,
               5834, 7919, 9119, 9657, 9871, 9952, 9982, 9993, 9998, 9999>>
        [] r = 62852 ->
             <<1, 2, 6, 17, 46, 125, 332, 854, 2024, 4082,
               6522, 8360, 9327, 9741, 9903, 9964, 9987, 9995, 9998, 9999>>
        [] r = 70819 ->
             <<1, 3, 7, 18, 50, 135, 359, 918, 2155, 4276,
               6700, 8466, 9375, 9761, 9911, 9967, 9988, 9996, 9998, 9999>> ]

\* Number((sigmoid(z) * 100).toFixed(2)) in hundredths: 100.00 from z = 10 on,
\* 0.00 up to z = -10, NaN for NaN
sigmoidPercent(z) ==
  CASE IsNaN(z)          -> NaN
    [] z >= 10 * Scale   -> 100 * Hundred
    [] z <= 0 - 10 * Scale -> 0
    [] OTHER             -> SigmoidTable[z % Scale][(z \div Scale) + 11]

\* clamp01(value) * 6 for value = calls / 8, in hundredths
clamp01Buffering(calls) ==
  IF calls <= 0 THEN 0
  ELSE IF calls >= BufferingDivisor THEN BufferingScale * Hundred
  ELSE RoundDiv(calls * BufferingScale * Hundred, BufferingDivisor)

RECURSIVE LinearFrom(_, _, _, _)
LinearFrom(weights, zX, j, z) ==
  IF j > Len(zX) THEN z
  ELSE LinearFrom(weights, zX, j + 1, JsAdd(z, JsMul(weights[j], zX[j])))

\* the comparator moving b before a also when the effects are equal in size
DriverAfterOrEqual(a, b) == JsGe(JsAbs(b.effect), JsAbs(a.effect))

\* the comparator of line 257, Math.abs(b.effect) - Math.abs(a.effect): > 0 moves b
\* before a; NaN counts as 0
DriverAfter(a, b) == JsGt(JsAbs(b.effect), JsAbs(a.effect))

\* stable insertion of x into a sequence sorted by the comparator
RECURSIVE InsertDriver(_, _)
InsertDriver(sorted, x) ==
  IF Len(sorted) = 0 THEN << x >>
  ELSE IF DriverAfter(sorted[Len(sorted)], x)
       THEN Append(InsertDriver(SubSeq(sorted, 1, Len(sorted) - 1), x), sorted[Len(sorted)])
       ELSE Append(sorted, x)

RECURSIVE SortDrivers(_, _, _)
SortDrivers(items, i, sorted) ==
  IF i > Len(items) THEN sorted
  ELSE SortDrivers(items, i + 1, InsertDriver(sorted, items[i]))

Take(seq, n) == SubSeq(seq, 1, IF Len(seq) < n THEN Len(seq) ELSE n)

scoreRow(row, logisticModel) ==
  LET rawX == featureVector(row.raw)
      zX   == [ j \in 1..NumFeatures |->
                  IF IsNaN(logisticModel.means[j]) THEN NaN
                  ELSE (rawX[j] - logisticModel.means[j]) \div logisticModel.stds[j] ]
      z    == LinearFrom(logisticModel.weights, zX, 1, logisticModel.bias)
      churnRisk == sigmoidPercent(z)
      contributions == [ j \in 1..NumFeatures |->
                           [ feature |-> featureDefs[j].name,
                             value   |-> rawX[j],
                             effect  |-> JsMul(logisticModel.weights[j], zX[j]) ] ]
      top == Take(SortDrivers(contributions, 1, << >>), DriverCap)
  IN  [ id               |-> row.id,
        state            |-> row.state,
        platform         |-> row.platform,
        tier             |-> row.tier,
        actualChurn      |-> row.actualChurn,
        minutes          |-> row.minutes,
        serviceCalls     |-> row.serviceCalls,
        interactionPulse |-> row.interactionPulse,
        raw              |-> row.raw,
        churnRisk        |-> churnRisk,
        bufferingRate    |-> clamp01Buffering(row.serviceCalls),
        satisfaction     |-> JsMax(SatisfactionMin,
                                   JsMin(SatisfactionMax,
                                         IF IsNaN(churnRisk) THEN NaN
                                         ELSE MathRound(1000 * Hundred - 7 * churnRisk, 1000))),
        riskDrivers      |-> [ k \in 1..Len(top) |->
                                 [ feature   |-> top[k].feature,
                                   direction |-> IF JsGe(top[k].effect, 0) THEN "up" ELSE "down",
                                   impact    |-> IF IsNaN(top[k].effect) THEN NaN
                                                 ELSE RoundDiv(JsAbs(top[k].effect), Hundred) ] ] ]

(***************************************************************************)
(* Evaluation.  Ratios are kept exact as <<numerator, denominator>>.       *)
(***************************************************************************)
\* CountRows predicting churn only above the threshold: row.churnRisk > threshold
RECURSIVE CountRowsAbove(_, _, _, _)
CountRowsAbove(rows, i, pred, actual) ==
  IF i > Len(rows) THEN 0
  ELSE (IF (IF JsGt(rows[i].churnRisk, EvalThreshold * Hundred) THEN 1 ELSE 0) = pred
           /\ rows[i].actualChurn = actual THEN 1 ELSE 0)
       + CountRowsAbove(rows, i + 1, pred, actual)

RECURSIVE CountRows(_, _, _, _)
\* the number of rows i..Len(rows) with prediction pred and label actual
CountRows(rows, i, pred, actual) ==
  IF i > Len(rows) THEN 0
  ELSE (IF (IF JsGe(rows[i].churnRisk, EvalThreshold * Hundred) THEN 1 ELSE 0) = pred
           /\ rows[i].actualChurn = actual THEN 1 ELSE 0)
       + CountRows(rows, i + 1, pred, actual)

\* Number((ratio * 100).toFixed(2)) in hundredths
RatioPercent(ratio) == RoundDiv(100 * Hundred * ratio[1], ratio[2])

\* the counts accumulated by lines 276-286
ConfusionMatrix(rows) ==
  [ tp |-> CountRows(rows, 1, 1, 1),
    fp |-> CountRows(rows, 1, 1, 0),
    tn |-> CountRows(rows, 1, 0, 0),
    fn |-> CountRows(rows, 1, 0, 1) ]

evaluateModel(rows) ==
  LET m  == ConfusionMatrix(rows)
      tp == m.tp
      fp == m.fp
      tn == m.tn
      fn == m.fn
      total     == IF Len(rows) = 0 THEN 1 ELSE Len(rows)
      precision == IF tp + fp > 0 THEN <<tp, tp + fp>> ELSE <<0, 1>>
      recall    == IF tp + fn > 0 THEN <<tp, tp + fn>> ELSE <<0, 1>>
      \* precision + recall and 2 * precision * recall over the common denominator
      sum       == precision[1] * recall[2] + recall[1] * precision[2]
      f1        == IF sum > 0 THEN <<2 * precision[1] * recall[1], sum>> ELSE <<0, 1>>
  IN  [ threshold |-> EvalThreshold,
        accuracy  |-> RatioPercent(<<tp + tn, total>>),
        precision |-> RatioPercent(precision),
        recall    |-> RatioPercent(recall),
        f1        |-> RatioPercent(f1) ]

(***************************************************************************)
(* The file system.  A file is the sequence of its non-empty lines, each   *)
(* already split into trimmed fields (parseCsvLine); the first line is the *)
(* header.                                                                 *)
(***************************************************************************)
Header == << "state", "area code", "phone number", "account length", "international plan",
             "voice mail plan", "total day minutes", "total eve minutes", "total day calls",
             "customer service calls", "churn" >>

ServiceCallTexts == << "2", "2", "2", "3", "4", "5", "9", "abc", "", "-2" >>

\* the fields of data line i (from 0) of the file tagged tag
DataLine(tag, i) ==
  LET calls == ServiceCallTexts[(i % 10) + 1]
  IN  << IF i % 7 = 6 THEN "" ELSE << "KS", "OH", "NJ" >>[(i % 3) + 1],
         << "415", "408", "510" >>[((i \div 3) % 3) + 1],
         tag \o "-" \o ToString(i),
         ToString(i % 4),
         IF i % 2 = 0 THEN "yes" ELSE "no",
         IF i % 5 = 0 THEN "yes" ELSE "no",
         ToString((i * 37) % 300),
         ToString((i * 53) % 250),
         ToString(80 + (i % 40)),
         calls,
         IF toNum(calls) >= 4 THEN "True" ELSE "False" >>

FileLines(tag, n) == << Header >> \o [ i \in 1..n |-> DataLine(tag, i - 1) ]

SmallRows == 7
LargeRows == 46
ExactRows == BatchSize
RiskyRows == 10

\* a data line of risky.csv: nine service calls, churned
RiskyLine(i) == [ DataLine("r", i) EXCEPT ![10] = "9", ![11] = "True" ]

\* small.csv ends with a line that has fewer fields than the header
FileSystem ==
  [ p \in {"empty.csv", "header.csv", "small.csv", "exact.csv", "large.csv", "risky.csv"} |->
      CASE p = "empty.csv"  -> << >>
        [] p = "header.csv" -> << Header >>
        [] p = "small.csv"  -> FileLines("s", SmallRows - 1) \o << << "OH", "408" >> >>
        [] p = "exact.csv"  -> FileLines("e", ExactRows)
        [] p = "risky.csv"  -> << Header >> \o [ i \in 1..RiskyRows |-> RiskyLine(i - 1) ]
        [] p = "large.csv"  -> FileLines("l", LargeRows) ]

\* the paths uploads are stored at, and the paths DATASET_PATH can name
UploadPaths == DOMAIN FileSystem
Paths == UploadPaths \cup {"missing.csv"}

\* the records of the file, or Threw: the path does not exist (line 122), or the
\* file has no line and parseCsvLine(undefined) raises a TypeError (line 126)
Threw == [ threw |-> TRUE ]

readDataset(csvPath) ==
  IF csvPath \notin DOMAIN FileSystem THEN Threw
  ELSE LET lines == FileSystem[csvPath]
       IN  IF Len(lines) = 0 THEN Threw
           ELSE LET headers == lines[1]
                IN  [ threw |-> FALSE,
                      rows  |-> [ i \in 1..(Len(lines) - 1) |->
                                    [ h \in { headers[k] : k \in 1..Len(headers) } |->
                                        LET index == CHOOSE k \in 1..Len(headers) : headers[k] = h
                                        IN  IF index <= Len(lines[i + 1])
                                            THEN lines[i + 1][index] ELSE "" ] ] ]

\* the files do not change: what each path loads to
LoadedFiles == [ p \in Paths |-> readDataset(p) ]

loadDataset(csvPath) == LoadedFiles[csvPath]

(***************************************************************************)
(* Aggregation over the stream window.                                     *)
(***************************************************************************)
\* rows.reduce((acc, cur) => acc + cur[field], 0) over rows[lo..hi]
RECURSIVE SumRange(_, _, _, _)
SumRange(rows, lo, hi, field) ==
  IF lo > hi THEN 0
  ELSE IF lo = hi THEN rows[lo][field]
  ELSE LET mid == (lo + hi) \div 2
       IN  JsAdd(SumRange(rows, lo, mid, field), SumRange(rows, mid + 1, hi, field))

Sum(rows, field) == SumRange(rows, 1, Len(rows), field)

\* Number((sum / count).toFixed(2)) in hundredths, for a sum in units of 1/unit
Mean(sum, count, unit) ==
  IF IsNaN(sum) THEN NaN ELSE RoundDiv((Hundred \div unit) * sum, count)

\* summarizePlatform over all the rows, whatever their platform
summarizePlatformUnfiltered(rows, platform) ==
  IF Len(rows) = 0
  THEN [ name |-> platform, activeUsers |-> 0, avgRisk |-> 0, serviceLoad |-> 0,
         avgMinutes |-> 0, satisfaction |-> 0 ]
  ELSE [ name        |-> platform,
         activeUsers |-> Len(rows),
         avgRisk     |-> Mean(Sum(rows, "churnRisk"), Len(rows), Hundred),
         serviceLoad |-> Mean(Sum(rows, "serviceCalls"), Len(rows), 1),
         avgMinutes  |-> Mean(Sum(rows, "minutes"), Len(rows), 1),
         satisfaction |-> Mean(Sum(rows, "satisfaction"), Len(rows), 1) ]

summarizePlatform(rows, platform) ==
  LET group == SelectSeq(rows, LAMBDA row : row.platform = platform)
  IN  IF Len(group) = 0
      THEN [ name |-> platform, activeUsers |-> 0, avgRisk |-> 0, serviceLoad |-> 0,
             avgMinutes |-> 0, satisfaction |-> 0 ]
      ELSE [ name        |-> platform,
             activeUsers |-> Len(group),
             avgRisk     |-> Mean(Sum(group, "churnRisk"), Len(group), Hundred),
             serviceLoad |-> Mean(Sum(group, "serviceCalls"), Len(group), 1),
             avgMinutes  |-> Mean(Sum(group, "minutes"), Len(group), 1),
             satisfaction |-> Mean(Sum(group, "satisfaction"), Len(group), 1) ]

\* the buckets of lines 315-319: [min, max) in whole percent
Buckets == << [ name |-> "Low",    min |-> 0,         max |-> LowMax ],
              [ name |-> "Medium", min |-> LowMax,    max |-> MediumMax ],
              [ name |-> "High",   min |-> MediumMax, max |-> HighMax ] >>

\* InBucket with the upper bound included: [min, max]
InBucketClosed(row, bucket) ==
  JsGe(row.churnRisk, bucket.min * Hundred) /\ ~JsGt(row.churnRisk, bucket.max * Hundred)

InBucket(row, bucket) ==
  JsGe(row.churnRisk, bucket.min * Hundred) /\ JsLt(row.churnRisk, bucket.max * Hundred)

getRiskDistribution(rows) ==
  LET total == IF Len(rows) = 0 THEN 1 ELSE Len(rows)
  IN  [ b \in 1..Len(Buckets) |->
          LET users == Len(SelectSeq(rows, LAMBDA row : InBucket(row, Buckets[b])))
          IN  [ name  |-> Buckets[b].name,
                min   |-> Buckets[b].min,
                max   |-> Buckets[b].max,
                users |-> users,
                share |-> RoundDiv(100 * Hundred * users, total) ] ]

\* buildAlerts returning alerts.slice(0, 1)
buildAlertsCutToOne(platformMetrics, highRiskCount) ==
  LET escalated == SelectSeq(platformMetrics,
                             LAMBDA platform : JsGt(platform.avgRisk, SegmentRiskAlert * Hundred))
      critical  == [ k \in 1..Len(escalated) |->
                       [ severity |-> "critical",
                         subject  |-> escalated[k].name,
                         avgRisk  |-> escalated[k].avgRisk,
                         load     |-> escalated[k].serviceLoad ] ]
      warning   == IF highRiskCount > CohortAlert
                   THEN << [ severity |-> "warning",
                             subject  |-> "High-risk cohort concentration",
                             avgRisk  |-> 0,
                             load     |-> highRiskCount ] >>
                   ELSE << >>
  IN  Take(critical \o warning, 1)

\* buildAlerts pushing the cohort warning before the segment alerts
buildAlertsWarningFirst(platformMetrics, highRiskCount) ==
  LET escalated == SelectSeq(platformMetrics,
                             LAMBDA platform : JsGt(platform.avgRisk, SegmentRiskAlert * Hundred))
      critical  == [ k \in 1..Len(escalated) |->
                       [ severity |-> "critical",
                         subject  |-> escalated[k].name,
                         avgRisk  |-> escalated[k].avgRisk,
                         load     |-> escalated[k].serviceLoad ] ]
      warning   == IF highRiskCount > CohortAlert
                   THEN << [ severity |-> "warning",
                             subject  |-> "High-risk cohort concentration",
                             avgRisk  |-> 0,
                             load     |-> highRiskCount ] >>
                   ELSE << >>
  IN  Take(warning \o critical, AlertCap)

\* the alerts pushed by lines 329-346, then alerts.slice(0, 8)
buildAlerts(platformMetrics, highRiskCount) ==
  LET escalated == SelectSeq(platformMetrics,
                             LAMBDA platform : JsGt(platform.avgRisk, SegmentRiskAlert * Hundred))
      critical  == [ k \in 1..Len(escalated) |->
                       [ severity |-> "critical",
                         subject  |-> escalated[k].name,
                         avgRisk  |-> escalated[k].avgRisk,
                         load     |-> escalated[k].serviceLoad ] ]
      warning   == IF highRiskCount > CohortAlert
                   THEN << [ severity |-> "warning",
                             subject  |-> "High-risk cohort concentration",
                             avgRisk  |-> 0,
                             load     |-> highRiskCount ] >>
                   ELSE << >>
  IN  Take(critical \o warning, AlertCap)

\* [...rows].sort((a, b) => b.churnRisk - a.churnRisk): the sort is stable, so the
\* rows of each risk value stay in their order, the values descending.  (With a
\* NaN risk the comparator is not an ordering and the result is left to the
\* engine; no row of mappedRows has one: a dataset with rows has a finite model.)
RECURSIVE SortedFrom(_, _)
SortedFrom(rows, values) ==
  IF values = {} THEN << >>
  ELSE LET top == CHOOSE v \in values : \A u \in values : u <= v
       IN  SelectSeq(rows, LAMBDA row : row.churnRisk = top)
             \o SortedFrom(rows, values \ {top})

\* the sort with the rows of equal risk in reverse order (newest first)
sortByRiskNewestFirst(rows) ==
  LET reversed == [ i \in 1..Len(rows) |-> rows[Len(rows) + 1 - i] ]
  IN  SortedFrom(reversed, { rows[i].churnRisk : i \in 1..Len(rows) })

sortByRiskDescending(rows) ==
  SortedFrom(rows, { rows[i].churnRisk : i \in 1..Len(rows) })

\* DrawFrom advancing the cursor by two: every other row is skipped
RECURSIVE DrawFromSkipping(_, _, _, _, _)
DrawFromSkipping(rows, size, i, at, cur) ==
  IF i >= size THEN [ out |-> [ k \in 1..Len(at) |-> rows[at[k] + 1] ], cursor |-> cur, at |-> at ]
  ELSE DrawFromSkipping(rows, size, i + 1, Append(at, cur), (cur + 2) % Len(rows))

\* the loop of lines 353-356 from step i on: the rows drawn, the cursor after the
\* draw, and the indices drawn
RECURSIVE DrawFrom(_, _, _, _, _)
DrawFrom(rows, size, i, at, cur) ==
  IF i >= size THEN [ out |-> [ k \in 1..Len(at) |-> rows[at[k] + 1] ], cursor |-> cur, at |-> at ]
  ELSE DrawFrom(rows, size, i + 1, Append(at, cur), (cur + 1) % Len(rows))

\* nextBatch leaving the cursor one past the last row instead of wrapping it to 0
nextBatchLateWrap(rows, cur) ==
  IF Len(rows) = 0 THEN [ out |-> << >>, cursor |-> cur, at |-> << >> ]
  ELSE LET drawn_ == DrawFrom(rows, BatchSize, 0, << >>, cur)
       IN  [ drawn_ EXCEPT !.cursor = IF @ = 0 THEN Len(rows) ELSE @ ]

\* nextBatch() with mappedRows = rows and cursor = cur
nextBatch(rows, cur) ==
  IF Len(rows) = 0 THEN [ out |-> << >>, cursor |-> cur, at |-> << >> ]
  ELSE DrawFrom(rows, BatchSize, 0, << >>, cur)

\* LastN keeping the oldest n elements: seq.slice(0, n)
LastNOldest(seq, n) == IF Len(seq) <= n THEN seq ELSE SubSeq(seq, 1, n)

\* LastN without the cut: the sequence grows without bound
LastNUncut(seq, n) == seq

\* seq.slice(-n)
LastN(seq, n) == IF Len(seq) <= n THEN seq ELSE SubSeq(seq, Len(seq) - n + 1, Len(seq))

(***************************************************************************)
(* The server.                                                             *)
(***************************************************************************)
VARIABLES
  state,               \* the published snapshot                      (line 44)
  mappedRows,          \* the scored rows of the current dataset      (line 60)
  model,               \* the trained model, Null before a load       (line 61)
  currentDatasetPath,  \*                                             (line 62)
  cursor,              \* the cyclic cursor into mappedRows           (line 63)
  streamWindow,        \*                                             (line 64)
  trendWindow,         \*                                             (line 65)
  pc,                  \* where the running callback stands; "idle": none runs
  frame,               \* the arguments and locals of the running initData
  res,                 \* the response being sent, NoResponse when none
  ticks,               \* history: refreshState calls since the last successful load
  drawn,               \* history: the indices nextBatch drew since then, with counts
  probe                \* argument and result of a function applied on its own

vars == << state, mappedRows, model, currentDatasetPath, cursor, streamWindow, trendWindow,
           pc, frame, res, ticks, drawn, probe >>

globals == << state, mappedRows, model, currentDatasetPath, cursor, streamWindow, trendWindow >>

Null == [ null |-> TRUE ]
NoFrame == [ csvPath |-> "", caller |-> "" ]
NoResponse == [ kind |-> "none" ]
NoProbe == [ fn |-> "none" ]

\* the snapshot of lines 44-58 when DATASET_PATH is datasetPath
InitialState(datasetPath) ==
  [ kpis |-> [ activeSessions |-> 0, avgChurnRisk |-> 0, predictedChurners |-> 0,
               totalMinutes |-> 0, avgServiceCalls |-> 0 ],
    platformMetrics  |-> << >>,
    riskDistribution |-> << >>,
    trend            |-> << >>,
    liveFeed         |-> << >>,
    topRiskCustomers |-> << >>,
    alerts           |-> << >>,
    modelStats       |-> Null,
    states           |-> {},
    platforms        |-> platforms,
    streamCustomers  |-> << >>,
    datasetInfo      |-> [ path |-> datasetPath, rows |-> 0 ] ]

Init ==
  /\ \E datasetPath \in Paths :
       /\ state = InitialState(datasetPath)
       /\ currentDatasetPath = datasetPath
  /\ mappedRows = << >>
  /\ model = Null
  /\ cursor = 0
  /\ streamWindow = << >>
  /\ trendWindow = << >>
  /\ pc = "boot"
  /\ frame = NoFrame
  /\ res = NoResponse
  /\ ticks = 0
  /\ drawn = << >>
  /\ probe = NoProbe

\* Idle if initData gave way to other callbacks between its two steps
IdleOrSuspended == pc \in {"idle", "init_commit"}

\* no callback is running: the event loop may start the next one.  initData and
\* refreshState are synchronous, so each runs to its end before another starts.
Idle == pc = "idle"

(***************************************************************************)
(* refreshState (lines 360-429).  Wall-clock values (the trend label, the  *)
(* ids built from Date.now(), updateAt) are left out.                      *)
(***************************************************************************)
\* the first row of the batch instead of the last
First(seq) == seq[1]

\* batch[batch.length - 1]
Last(seq) == seq[Len(seq)]

CustomerOf(row) ==
  [ id |-> row.id, platform |-> row.platform, state |-> row.state, tier |-> row.tier,
    risk |-> row.churnRisk, interactionPulse |-> row.interactionPulse,
    serviceCalls |-> row.serviceCalls, minutes |-> row.minutes, riskDrivers |-> row.riskDrivers ]

TopRiskOf(row) ==
  [ id |-> row.id, platform |-> row.platform, state |-> row.state, tier |-> row.tier,
    risk |-> row.churnRisk, serviceCalls |-> row.serviceCalls,
    interactionPulse |-> row.interactionPulse, riskDrivers |-> row.riskDrivers ]

PulseOf(row, cur) ==
  [ id |-> cur, platform |-> row.platform, state |-> row.state, tier |-> row.tier,
    interactionPulse |-> row.interactionPulse, risk |-> row.churnRisk,
    bufferingRate |-> row.bufferingRate, riskDrivers |-> row.riskDrivers ]

\* the bound of the High band in place of the threshold of the statistics
ChurnThresholdOfHighBand(modelStats) == MediumMax

\* state.modelStats?.threshold ?? 50
ChurnThreshold(modelStats) == IF modelStats = Null THEN EvalThreshold ELSE modelStats.threshold

\* the values refreshState leaves in the globals, and the indices it drew
refreshState(st, rows, cur, window, trend) ==
  LET batch   == nextBatch(rows, cur)
      newWindow == LastN(window \o batch.out, WindowCap)
      activeSessions == Len(newWindow)
      avgChurnRisk ==
        IF activeSessions > 0 THEN Mean(Sum(newWindow, "churnRisk"), activeSessions, Hundred) ELSE 0
      predictedChurners ==
        Len(SelectSeq(newWindow,
                      LAMBDA row : JsGe(row.churnRisk, ChurnThreshold(st.modelStats) * Hundred)))
      totalMinutes == Sum(newWindow, "minutes")
      avgServiceCalls ==
        IF activeSessions > 0 THEN Mean(Sum(newWindow, "serviceCalls"), activeSessions, 1) ELSE 0
      platformMetrics == [ k \in 1..Len(platforms) |-> summarizePlatform(newWindow, platforms[k]) ]
      distribution == getRiskDistribution(newWindow)
      sorted == Take(sortByRiskDescending(newWindow), TopRiskCap)
      trendPoint == [ risk |-> avgChurnRisk, churners |-> predictedChurners,
                      active |-> activeSessions ]
      newTrend == LastN(Append(trend, trendPoint), TrendCap)
      high == SelectSeq(distribution, LAMBDA d : d.name = "High")
  IN  [ cursor       |-> batch.cursor,
        streamWindow |-> newWindow,
        trendWindow  |-> newTrend,
        at           |-> batch.at,
        state        |->
          [ st EXCEPT
              !.kpis = [ activeSessions |-> activeSessions, avgChurnRisk |-> avgChurnRisk,
                         predictedChurners |-> predictedChurners,
                         totalMinutes |-> totalMinutes, avgServiceCalls |-> avgServiceCalls ],
              !.platformMetrics = platformMetrics,
              !.riskDistribution = distribution,
              !.trend = newTrend,
              !.liveFeed = IF Len(batch.out) > 0
                           THEN Take(<< PulseOf(Last(batch.out), batch.cursor) >>
                                       \o st.liveFeed, FeedCap)
                           ELSE st.liveFeed,
              !.topRiskCustomers = [ k \in 1..Len(sorted) |-> TopRiskOf(sorted[k]) ],
              !.streamCustomers = [ k \in 1..Len(newWindow) |-> CustomerOf(newWindow[k]) ],
              !.alerts = buildAlerts(platformMetrics,
                                     IF Len(high) > 0 THEN high[1].users ELSE 0) ] ]

\* the history of draws with the indices at added
RECURSIVE Record(_, _, _)
Record(counts, at, k) ==
  IF k > Len(at) THEN counts
  ELSE Record([ counts EXCEPT ![at[k] + 1] = @ + 1 ], at, k + 1)

\* one call of refreshState
Refresh ==
  LET r == refreshState(state, mappedRows, cursor, streamWindow, trendWindow)
  IN  /\ state' = r.state
      /\ cursor' = r.cursor
      /\ streamWindow' = r.streamWindow
      /\ trendWindow' = r.trendWindow
      /\ ticks' = ticks + 1
      /\ drawn' = Record(drawn, r.at, 1)
      /\ UNCHANGED << mappedRows, model, currentDatasetPath, frame, res, probe >>

\* setInterval(refreshState, 2200), line 461
Tick ==
  /\ Idle
  /\ ticks < MaxTicks
  /\ Refresh
  /\ pc' = "idle"

(***************************************************************************)
(* initData (lines 67-91), in two steps: lines 69-72, which either throw   *)
(* or replace model and mappedRows, and lines 73-86, which replace the     *)
(* rest.                                                                   *)
(***************************************************************************)
\* rawRows.map((row, idx) => toModelRow(row, idx)) for each file that loads
ModelingRows ==
  [ p \in { q \in DOMAIN FileSystem : ~loadDataset(q).threw } |->
      LET rawRows == loadDataset(p).rows
      IN  [ i \in 1..Len(rawRows) |-> toModelRow(rawRows[i], i - 1) ] ]

\* modelingRows.map((row) => scoreRow(row, model)) for each file that loads
ScoredRows ==
  [ p \in DOMAIN ModelingRows |->
      [ i \in 1..Len(ModelingRows[p]) |->
          scoreRow(ModelingRows[p][i], trainLogisticRegression(ModelingRows[p])) ] ]

\* what follows a return of initData: line 460 at start-up, lines 434-438 in the
\* upload handler
Return(caller, ok, rowCount) ==
  IF caller = "startup"
  THEN /\ pc' = "startup_refresh"
       /\ res' = res
  ELSE /\ pc' = "sent"
       /\ res' = IF ok THEN [ kind |-> "upload", status |-> 200, rows |-> rowCount ]
                 ELSE [ kind |-> "upload", status |-> 500 ]

\* InitLoad clearing the old rows and model before it loads the file
InitLoadClearingFirst(csvPath, caller) ==
  IF loadDataset(csvPath).threw
  THEN /\ Return(caller, FALSE, 0)
       /\ frame' = NoFrame
       /\ model' = Null
       /\ mappedRows' = << >>
  ELSE /\ model' = trainLogisticRegression(ModelingRows[csvPath])
       /\ mappedRows' = ScoredRows[csvPath]
       /\ frame' = [ csvPath |-> csvPath, caller |-> caller ]
       /\ pc' = "init_commit"
       /\ res' = res

\* initData(csvPath) up to line 72: the catch of lines 87-90 when loadDataset
\* throws, else the new model and mappedRows
InitLoad(csvPath, caller) ==
  IF loadDataset(csvPath).threw
  THEN /\ Return(caller, FALSE, 0)
       /\ frame' = NoFrame
       /\ UNCHANGED << model, mappedRows >>
  ELSE /\ model' = trainLogisticRegression(ModelingRows[csvPath])
       /\ mappedRows' = ScoredRows[csvPath]
       /\ frame' = [ csvPath |-> csvPath, caller |-> caller ]
       /\ pc' = "init_commit"
       /\ res' = res

\* line 459: initData(datasetPath)
Startup ==
  /\ pc = "boot"
  /\ InitLoad(currentDatasetPath, "startup")
  /\ UNCHANGED << state, currentDatasetPath, cursor, streamWindow, trendWindow,
                  ticks, drawn, probe >>

\* POST /api/upload, lines 431-433
Upload ==
  /\ Idle
  /\ \E file \in UploadPaths \cup {"<none>"} :
       IF file = "<none>"
       THEN /\ res' = [ kind |-> "upload", status |-> 400 ]
            /\ pc' = "sent"
            /\ UNCHANGED << frame, model, mappedRows >>
       ELSE InitLoad(file, "upload")
  /\ UNCHANGED << state, currentDatasetPath, cursor, streamWindow, trendWindow,
                  ticks, drawn, probe >>

\* InitCommit without streamWindow = []
InitCommitKeepingWindow ==
  /\ pc = "init_commit"
  /\ state' = [ state EXCEPT
                  !.modelStats = evaluateModel(mappedRows),
                  !.states = { mappedRows[i].state : i \in 1..Len(mappedRows) },
                  !.datasetInfo = [ path |-> frame.csvPath, rows |-> Len(mappedRows) ],
                  !.liveFeed = << >>,
                  !.trend = << >> ]
  /\ currentDatasetPath' = frame.csvPath
  /\ cursor' = 0
  /\ streamWindow' = streamWindow
  /\ trendWindow' = << >>
  /\ Return(frame.caller, TRUE, Len(mappedRows))
  /\ frame' = NoFrame
  /\ ticks' = 0
  /\ drawn' = [ i \in 1..Len(mappedRows) |-> 0 ]
  /\ UNCHANGED << mappedRows, model, probe >>

\* InitCommit without cursor = 0
InitCommitKeepingCursor ==
  /\ pc = "init_commit"
  /\ state' = [ state EXCEPT
                  !.modelStats = evaluateModel(mappedRows),
                  !.states = { mappedRows[i].state : i \in 1..Len(mappedRows) },
                  !.datasetInfo = [ path |-> frame.csvPath, rows |-> Len(mappedRows) ],
                  !.liveFeed = << >>,
                  !.trend = << >> ]
  /\ currentDatasetPath' = frame.csvPath
  /\ cursor' = cursor
  /\ streamWindow' = << >>
  /\ trendWindow' = << >>
  /\ Return(frame.caller, TRUE, Len(mappedRows))
  /\ frame' = NoFrame
  /\ ticks' = 0
  /\ drawn' = [ i \in 1..Len(mappedRows) |-> 0 ]
  /\ UNCHANGED << mappedRows, model, probe >>

\* lines 73-86
InitCommit ==
  /\ pc = "init_commit"
  /\ state' = [ state EXCEPT
                  !.modelStats = evaluateModel(mappedRows),
                  !.states = { mappedRows[i].state : i \in 1..Len(mappedRows) },
                  !.datasetInfo = [ path |-> frame.csvPath, rows |-> Len(mappedRows) ],
                  !.liveFeed = << >>,
                  !.trend = << >> ]
  /\ currentDatasetPath' = frame.csvPath
  /\ cursor' = 0
  /\ streamWindow' = << >>
  /\ trendWindow' = << >>
  /\ Return(frame.caller, TRUE, Len(mappedRows))
  /\ frame' = NoFrame
  /\ ticks' = 0
  /\ drawn' = [ i \in 1..Len(mappedRows) |-> 0 ]
  /\ UNCHANGED << mappedRows, model, probe >>

\* line 460: refreshState(), then the timer and the listener are installed
StartupRefresh ==
  /\ pc = "startup_refresh"
  /\ Refresh
  /\ pc' = "idle"

(***************************************************************************)
(* The readers.                                                            *)
(***************************************************************************)
\* GET /api/snapshot (lines 451-453); a new socket connection is sent the same
\* value (lines 455-457)
GetSnapshot ==
  /\ Idle
  /\ res' = [ kind |-> "snapshot", body |-> state ]
  /\ pc' = "sent"
  /\ UNCHANGED << globals, frame, ticks, drawn, probe >>

\* GET /health (lines 441-449)
GetHealth ==
  /\ Idle
  /\ res' = [ kind |-> "health",
              body |-> [ status |-> "ok", datasetRows |-> state.datasetInfo.rows,
                         datasetPath |-> state.datasetInfo.path,
                         modelStats |-> state.modelStats ] ]
  /\ pc' = "sent"
  /\ UNCHANGED << globals, frame, ticks, drawn, probe >>

\* the response leaves the process
Deliver ==
  /\ pc = "sent"
  /\ res' = NoResponse
  /\ pc' = "idle"
  /\ UNCHANGED << globals, frame, ticks, drawn, probe >>

Next ==
  \/ Startup
  \/ InitCommit
  \/ StartupRefresh
  \/ Tick
  \/ Upload
  \/ GetSnapshot
  \/ GetHealth
  \/ Deliver

Spec == Init /\ [][Next]_vars

(***************************************************************************)
(* Properties of the server.                                               *)
(***************************************************************************)
\* a step in which initData returns false: at start-up line 460 follows at once,
\* in the upload handler the response is the 500 of line 437
FailedReload ==
  \/ pc = "boot" /\ pc' = "startup_refresh"
  \/ pc = "idle" /\ res'.kind = "upload" /\ res'.status = 500

\* initData has returned true and nothing has run since
ReturnedTrue ==
  \/ pc = "sent" /\ res.kind = "upload" /\ res.status = 200
  \/ pc = "startup_refresh" /\ model # Null

\* the ids of the rows of the dataset at path
DatasetIds(path) ==
  IF path \in DOMAIN ScoredRows
  THEN { ScoredRows[path][i].id : i \in 1..Len(ScoredRows[path]) }
  ELSE {}

\* C1: a reload that fails (the path does not exist, or the file is empty) returns
\* failure and leaves model, mappedRows, cursor, streamWindow, trendWindow and the
\* published snapshot exactly as they were; a path that does not load always fails.
C1_FailedReloadKeepsState ==
  [][ /\ FailedReload => globals' = globals
      /\ (pc = "boot" /\ loadDataset(currentDatasetPath).threw) => FailedReload ]_vars

\* a failed upload that found a loaded dataset, a filled window and a trend history
C1_Witness ==
  /\ pc = "sent" /\ res.kind = "upload" /\ res.status = 500
  /\ Len(mappedRows) > 0 /\ Len(streamWindow) > BatchSize /\ cursor > 0
  /\ Len(trendWindow) > 1 /\ state.datasetInfo.rows > 0

\* C2: no snapshot sent to a consumer combines the datasetInfo of one dataset with
\* stream customers, a top-risk leaderboard or KPIs computed from the window of
\* another: every customer in it is a row of the dataset its datasetInfo names, and
\* its activeSessions is the number of its stream customers.
C2_NoPartialReloadVisible ==
  (res.kind = "snapshot") =>
     LET body == res.body
         ids  == DatasetIds(body.datasetInfo.path)
     IN  /\ \A k \in 1..Len(body.streamCustomers) : body.streamCustomers[k].id \in ids
         /\ \A k \in 1..Len(body.topRiskCustomers) : body.topRiskCustomers[k].id \in ids
         /\ body.kpis.activeSessions = Len(body.streamCustomers)
         /\ body.kpis.activeSessions > 0 => body.datasetInfo.rows > 0

\* C3: when initData has returned true, model and mappedRows are those of the new
\* dataset, cursor is 0, streamWindow, trendWindow, state.trend and state.liveFeed
\* are empty, and datasetInfo names the new dataset.
C3_ReloadReplacesAll ==
  ReturnedTrue =>
     /\ currentDatasetPath \in DOMAIN ScoredRows
     /\ mappedRows = ScoredRows[currentDatasetPath]
     /\ model = trainLogisticRegression(ModelingRows[currentDatasetPath])
     /\ cursor = 0
     /\ streamWindow = << >>
     /\ trendWindow = << >>
     /\ state.trend = << >>
     /\ state.liveFeed = << >>
     /\ state.datasetInfo = [ path |-> currentDatasetPath, rows |-> Len(mappedRows) ]
     /\ state.modelStats = evaluateModel(mappedRows)

\* an upload that succeeded after the window of a larger dataset had been filled
\* and its cursor advanced
C3_Witness ==
  /\ pc = "sent" /\ res.kind = "upload" /\ res.status = 200
  /\ state.kpis.activeSessions = WindowCap
  /\ Len(mappedRows) > 0
  /\ Len(mappedRows) < state.kpis.activeSessions

\* the globals are those of one dataset: the rows and the model of the current
\* path, a cursor inside them, a window drawn from them
GlobalsOfOneDataset ==
  /\ IF currentDatasetPath \in DOMAIN ScoredRows /\ model # Null
     THEN /\ mappedRows = ScoredRows[currentDatasetPath]
          /\ model = trainLogisticRegression(ModelingRows[currentDatasetPath])
     ELSE mappedRows = << >> /\ model = Null
  /\ (cursor = 0 \/ cursor < Len(mappedRows))
  /\ \A k \in 1..Len(streamWindow) : streamWindow[k].id \in DatasetIds(currentDatasetPath)

\* C4: reload and tick are mutually exclusive: every call of refreshState starts
\* with no initData in progress and reads globals of one dataset, never a new
\* mappedRows or model beside the old cursor and window.
C4_TickNeverInsideReload ==
  [][ ticks' = ticks + 1 => (pc # "init_commit" /\ GlobalsOfOneDataset) ]_vars

\* an upload is between its two steps (new rows and model, old cursor and window)
\* while ticks have run before it
C4_Witness ==
  /\ pc = "init_commit" /\ frame.caller = "upload"
  /\ ticks > 1 /\ Len(streamWindow) > 0
  /\ ~GlobalsOfOneDataset

\* C5: after any sequence of ticks and reloads, for every dataset size, the stream
\* window holds at most 620 rows and the trend history at most 24 points.
C5_WindowAndTrendBounded ==
  /\ Len(streamWindow) <= WindowCap
  /\ Len(trendWindow) <= TrendCap
  /\ Len(state.trend) <= TrendCap
  /\ Len(state.streamCustomers) <= WindowCap

\* both are full and more ticks have run than either holds
C5_Witness ==
  /\ Len(streamWindow) = WindowCap
  /\ Len(trendWindow) = TrendCap
  /\ ticks > TrendCap
  /\ ticks * BatchSize > WindowCap

\* C6 as stated: in every state between callbacks, 0 <= cursor < datasetSize.
C6_CursorInRange ==
  Idle => (0 <= cursor /\ cursor < Len(mappedRows))

\* C6, amended: whenever initData is not between its steps, cursor is 0 if the
\* dataset has no rows and otherwise 0 <= cursor < datasetSize; the cursor is the
\* number of rows drawn since the load modulo datasetSize, so it wraps to 0 past
\* the last row.
C6_CursorInRangeOrEmpty ==
  (pc # "init_commit") =>
     IF Len(mappedRows) = 0 THEN cursor = 0
     ELSE /\ 0 <= cursor /\ cursor < Len(mappedRows)
          /\ cursor = (BatchSize * ticks) % Len(mappedRows)

\* the cursor has wrapped at least once and the dataset is smaller than a batch
C6_Witness ==
  /\ Idle /\ Len(mappedRows) > 0 /\ Len(mappedRows) < BatchSize
  /\ ticks > 1 /\ cursor > 0

\* C7: for a non-empty dataset of N rows, after k ticks since the load every row
\* index has been drawn at least floor(45 k / N) times, in round-robin order from
\* index 0: the first (45 k) mod N indices once more than the others.
C7_NoRowSkipped ==
  (pc # "init_commit" /\ Len(mappedRows) > 0) =>
     LET n == Len(mappedRows)
         q == (BatchSize * ticks) \div n
         r == (BatchSize * ticks) % n
     IN  /\ DOMAIN drawn = 1..n
         /\ \A i \in 1..n : drawn[i] >= q
         /\ \A i \in 1..n : drawn[i] = IF i <= r THEN q + 1 ELSE q

\* datasets smaller than, as large as and larger than a batch have each been
\* drawn from for several ticks; this one is smaller and mid-cycle
C7_Witness ==
  /\ Idle /\ Len(mappedRows) > 0 /\ Len(mappedRows) < BatchSize
  /\ ticks >= 3 /\ cursor # 0
  /\ drawn[1] > drawn[Len(mappedRows)]

\* the indices of the window rows whose risk, in hundredths, is in lo..hi
RowsWithRisk(lo, hi) ==
  { k \in 1..Len(streamWindow) : lo <= streamWindow[k].churnRisk /\ streamWindow[k].churnRisk <= hi }

\* C8: after every tick the counts of Low (0 <= risk < 34), Medium (34 <= risk <
\* 67) and High (67 <= risk < 101) sum to the window size; a row at exactly 34.00
\* is counted in Medium and one at exactly 67.00 in High.
C8_BandsPartitionWindow ==
  (ticks > 0) =>
     LET d == state.riskDistribution
     IN  /\ Len(d) = 3
         /\ d[1].users + d[2].users + d[3].users = Len(streamWindow)
         /\ d[1].name = "Low"    /\ d[1].users = Cardinality(RowsWithRisk(0, 3399))
         /\ d[2].name = "Medium" /\ d[2].users = Cardinality(RowsWithRisk(3400, 6699))
         /\ d[3].name = "High"   /\ d[3].users = Cardinality(RowsWithRisk(6700, 10099))

\* the window holds rows at exactly 34.00 and at exactly 67.00, and rows in each band
C8_Witness ==
  /\ ticks > 0
  /\ RowsWithRisk(3400, 3400) # {} /\ RowsWithRisk(6700, 6700) # {}
  /\ RowsWithRisk(0, 3399) # {} /\ RowsWithRisk(6701, 10000) # {}

(***************************************************************************)
(* scoreRow and evaluateModel on their own: the argument is drawn at the   *)
(* start, the function is applied to it, and probe holds the result.  The  *)
(* server is not running.                                                  *)
(***************************************************************************)
Detached ==
  /\ state = InitialState("missing.csv")
  /\ currentDatasetPath = "missing.csv"
  /\ mappedRows = << >>
  /\ model = Null
  /\ cursor = 0
  /\ streamWindow = << >>
  /\ trendWindow = << >>
  /\ pc = "detached"
  /\ frame = NoFrame
  /\ res = NoResponse
  /\ ticks = 0
  /\ drawn = << >>

\* records as loadDataset builds them, with service-call counts that are negative,
\* zero, small, at the clamp, very large, not a number and blank
ProbeRecords ==
  { [ k \in {"international plan", "voice mail plan", "customer service calls", "churn"} |->
        CASE k = "international plan"     -> ip
          [] k = "voice mail plan"        -> vp
          [] k = "customer service calls" -> sc
          [] OTHER                        -> ch ] :
      ip \in {"yes", "no"}, vp \in {"Yes", "no"},
      sc \in {"-320", "-2", "0", "3", "8", "320", "abc", ""}, ch \in {"True", "False"} }

\* the row is scored with the model trained on a dataset of zero rows or on a
\* dataset that holds the row
InitScore ==
  /\ Detached
  /\ \E raw \in ProbeRecords, n \in 0..1 :
       probe = [ fn    |-> "scoreRow",
                 stage |-> "train",
                 rows  |-> [ i \in 1..n |-> toModelRow(raw, 0) ],
                 row   |-> toModelRow(raw, 0),
                 model |-> Null,
                 out   |-> Null ]

\* const model = trainLogisticRegression(modelingRows, 650, 0.07, 0.0007), line 71
TrainStep ==
  /\ probe.fn = "scoreRow" /\ probe.stage = "train"
  /\ probe' = [ probe EXCEPT !.stage = "score", !.model = trainLogisticRegression(probe.rows) ]
  /\ UNCHANGED << globals, pc, frame, res, ticks, drawn >>

\* scoreRow(row, model), line 72
ScoreStep ==
  /\ probe.fn = "scoreRow" /\ probe.stage = "score"
  /\ probe' = [ probe EXCEPT !.stage = "done", !.out = scoreRow(probe.row, probe.model) ]
  /\ UNCHANGED << globals, pc, frame, res, ticks, drawn >>

NextScore == TrainStep \/ ScoreStep

SpecScore == InitScore /\ [][NextScore]_vars

\* C9: every row scoreRow returns, for the model trained on any dataset including
\* one of zero rows, and for negative and very large service-call counts, has
\* 0 <= churnRisk <= 100, 20 <= satisfaction <= 99 and 0 <= bufferingRate <= 6.
C9_ScoresInRange ==
  (probe.fn = "scoreRow" /\ probe.stage = "done") =>
     /\ JsGe(probe.out.churnRisk, 0) /\ JsGe(100 * Hundred, probe.out.churnRisk)
     /\ JsGe(probe.out.satisfaction, SatisfactionMin)
     /\ JsGe(SatisfactionMax, probe.out.satisfaction)
     /\ JsGe(probe.out.bufferingRate, 0)
     /\ JsGe(BufferingScale * Hundred, probe.out.bufferingRate)

\* scored rows: a risk below, just below, at and above the threshold, and a label
EvalRows ==
  { [ churnRisk |-> risk, actualChurn |-> label ] :
      risk \in {0, 4999, 5000, 10000}, label \in {0, 1} }

InitEval ==
  /\ Detached
  /\ \E n \in 0..MaxEvalRows : \E rows \in [ 1..n -> EvalRows ] :
       probe = [ fn |-> "evaluateModel", stage |-> "call", rows |-> rows, out |-> Null ]

\* evaluateModel(mappedRows), line 75
EvalStep ==
  /\ probe.fn = "evaluateModel" /\ probe.stage = "call"
  /\ probe' = [ probe EXCEPT !.stage = "done", !.out = evaluateModel(probe.rows) ]
  /\ UNCHANGED << globals, pc, frame, res, ticks, drawn >>

NextEval == EvalStep

SpecEval == InitEval /\ [][NextEval]_vars

\* every prediction (risk >= 50 is positive) matches the label
AllMatch(rows) ==
  \A i \in 1..Len(rows) :
     JsGe(rows[i].churnRisk, EvalThreshold * Hundred) <=> (rows[i].actualChurn = 1)

AllFour(out, value) ==
  out.accuracy = value /\ out.precision = value /\ out.recall = value /\ out.f1 = value

Evaluated == probe.fn = "evaluateModel" /\ probe.stage = "done"

\* C10 as stated: on rows whose predictions all match the labels accuracy,
\* precision, recall and F1 are all 100.00; on no rows all four are 0.
C10_PerfectOrEmpty ==
  Evaluated =>
     /\ (Len(probe.rows) > 0 /\ AllMatch(probe.rows)) => AllFour(probe.out, 100 * Hundred)
     /\ (Len(probe.rows) = 0) => AllFour(probe.out, 0)

\* C10, amended: on rows whose predictions all match the labels and of which at
\* least one is positive, accuracy, precision, recall and F1 are all 100.00; when
\* all match and none is positive accuracy is 100.00 and precision, recall and F1
\* are 0; on no rows all four are 0.
C10_PerfectWithPositiveOrEmpty ==
  Evaluated =>
     LET rows == probe.rows
         positive == \E i \in 1..Len(rows) : rows[i].actualChurn = 1
     IN  /\ (AllMatch(rows) /\ positive) => AllFour(probe.out, 100 * Hundred)
         /\ (AllMatch(rows) /\ ~positive /\ Len(rows) > 0) =>
               /\ probe.out.accuracy = 100 * Hundred
               /\ probe.out.precision = 0 /\ probe.out.recall = 0 /\ probe.out.f1 = 0
         /\ (Len(rows) = 0) => AllFour(probe.out, 0)
         /\ probe.out.threshold = EvalThreshold

\* three rows, all matching, a positive exactly at the threshold and a negative
\* just below it
C10_Witness ==
  /\ Evaluated /\ Len(probe.rows) = 3 /\ AllMatch(probe.rows)
  /\ \E i \in 1..3 : probe.rows[i].churnRisk = EvalThreshold * Hundred
  /\ \E i \in 1..3 : probe.rows[i].churnRisk = EvalThreshold * Hundred - 1
  /\ AllFour(probe.out, 100 * Hundred)

\* C11: the statistics evaluateModel returns hold a confusion matrix whose four
\* counts (tp, fp, tn, fn) sum to the number of rows it was given, every row in
\* exactly one cell.
C11_MatrixReported ==
  Evaluated =>
     /\ {"tp", "fp", "tn", "fn"} \subseteq DOMAIN probe.out
     /\ probe.out.tp + probe.out.fp + probe.out.tn + probe.out.fn = Len(probe.rows)

\* every weight, the bias and every mean of the model are 0
AllZero(logisticModel) ==
  /\ \A j \in 1..NumFeatures : logisticModel.weights[j] = 0 /\ logisticModel.means[j] = 0
  /\ logisticModel.bias = 0

\* C12: trained on zero rows, trainLogisticRegression returns the all-zero model
\* (every weight 0, bias 0, every mean 0): after the reload of a header-only
\* dataset has trained its model, the model is all-zero.
C12_ZeroRowsZeroModel ==
  (model # Null /\ Len(mappedRows) = 0) => AllZero(model)

(***************************************************************************)
(* toModelRow and featureVector on their own.                              *)
(***************************************************************************)
Missing == "<missing>"

\* the record with the fields given, without those that are Missing
RecordOf(fields) == [ k \in { key \in DOMAIN fields : fields[key] # Missing } |-> fields[k] ]

\* records with fields that are missing, blank, padded, not numbers, negative, and
\* boolean fields in several spellings
ExtractRecords ==
  { RecordOf([ k \in {"state", "international plan", "voice mail plan",
                      "total day minutes", "customer service calls", "churn"} |->
                 CASE k = "state"                  -> st
                   [] k = "international plan"     -> ip
                   [] k = "voice mail plan"        -> "yes "
                   [] k = "total day minutes"      -> day
                   [] k = "customer service calls" -> sc
                   [] OTHER                        -> ch ]) :
      st  \in {Missing, "", "KS"},
      ip  \in {Missing, "", "yes", " Yes ", "YES", "no", "True", "y", "yes!"},
      day \in {Missing, "250", "12.5.1"},
      sc  \in {Missing, "", "3", " 7 ", "abc", "-2", "Infinity"},
      ch  \in {Missing, " true ", "False"} }

MaxIndex == 12

InitExtract ==
  /\ Detached
  /\ \E raw \in ExtractRecords, idx \in {0, MaxIndex} :
       probe = [ fn |-> "toModelRow", stage |-> "call", raw |-> raw, idx |-> idx, out |-> Null ]

\* toModelRow(row, idx) of line 70 and featureVector(row.raw) of line 203
ExtractStep ==
  /\ probe.fn = "toModelRow" /\ probe.stage = "call"
  /\ probe' = [ probe EXCEPT !.stage = "done",
                             !.out = [ row    |-> toModelRow(probe.raw, probe.idx),
                                       vector |-> featureVector(probe.raw) ] ]
  /\ UNCHANGED << globals, pc, frame, res, ticks, drawn >>

NextExtract == ExtractStep

SpecExtract == InitExtract /\ [][NextExtract]_vars

\* the texts of this model that Number() parses to a finite number, and the number
Parsed == [ s \in {"", "250", "3", " 7 ", "-2"} |->
            CASE s = "" -> 0 [] s = "250" -> 250 [] s = "3" -> 3 [] s = " 7 " -> 7 [] OTHER -> 0 - 2 ]

\* the spellings of this model that are "yes" once trimmed and lower-cased
YesSpellings == {"yes", " Yes ", "YES", "yes "}

\* C13: for every record (fields missing, blank or not numeric) and index,
\* toModelRow and featureVector return a value; a numeric feature is the number
\* its field parses to and 0 when the field is missing or does not parse, and a
\* boolean feature is 1 exactly when the trimmed, lower-cased field is "yes".
C13_ExtractionTotal ==
  (probe.fn = "toModelRow" /\ probe.stage = "done") =>
     LET raw == probe.raw
         vector == probe.out.vector
         row == probe.out.row
     IN  /\ Len(vector) = NumFeatures
         /\ \A j \in 1..NumFeatures :
              LET key == featureDefs[j].key
              IN  IF featureDefs[j].type = "num"
                  THEN vector[j] = IF key \in DOMAIN raw /\ raw[key] \in DOMAIN Parsed
                                   THEN Parsed[raw[key]] ELSE 0
                  ELSE vector[j] = IF key \in DOMAIN raw /\ raw[key] \in YesSpellings
                                   THEN 1 ELSE 0
         /\ row.raw = raw
         /\ row.serviceCalls = vector[NumFeatures]
         /\ row.actualChurn \in {0, 1}
         /\ row.platform \in { platforms[k] : k \in 1..Len(platforms) }
         /\ row.tier \in {"Premium", "Standard", "Mobile"}
         /\ row.state = IF "state" \in DOMAIN raw /\ raw["state"] # "" THEN raw["state"] ELSE "NA"

\* a record without a state, with a padded spelling of yes and a service-call
\* field that is not a number
C13_Witness ==
  /\ probe.fn = "toModelRow" /\ probe.stage = "done"
  /\ "state" \notin DOMAIN probe.raw
  /\ "international plan" \in DOMAIN probe.raw /\ probe.raw["international plan"] = " Yes "
  /\ "customer service calls" \in DOMAIN probe.raw
  /\ probe.raw["customer service calls"] = "abc"
  /\ probe.idx = MaxIndex
  /\ probe.out.vector[2] = 1 /\ probe.out.vector[NumFeatures] = 0

(***************************************************************************)
(* Properties of the published analytics.                                  *)
(***************************************************************************)
\* C14: whenever initData is not between its steps, every row of the stream window
\* is a row of the current mappedRows, which are the rows of the current dataset
\* scored with the current model: no row of a replaced dataset stays in the window.
C14_WindowRowsAreCurrent ==
  (pc # "init_commit") =>
     /\ model # Null =>
          /\ mappedRows = ScoredRows[currentDatasetPath]
          /\ model = trainLogisticRegression(ModelingRows[currentDatasetPath])
     /\ \A k \in 1..Len(streamWindow) :
          \E i \in 1..Len(mappedRows) :
             mappedRows[i].id = streamWindow[k].id /\ mappedRows[i] = streamWindow[k]

\* a reload has just replaced a dataset whose rows filled the window (they still
\* show in the snapshot), and none of them is left in the window
C14_Witness ==
  /\ pc = "sent" /\ res.kind = "upload" /\ res.status = 200
  /\ Len(state.streamCustomers) > BatchSize
  /\ \A k \in 1..Len(state.streamCustomers) :
        state.streamCustomers[k].id \notin DatasetIds(currentDatasetPath)
  /\ Len(mappedRows) > 0
  /\ streamWindow = << >>

\* the positions of the segments whose mean risk is above 62, in segment order
Escalated(metrics) == { k \in 1..Len(metrics) : metrics[k].avgRisk > SegmentRiskAlert * Hundred }

\* C15: the alerts of a tick are one critical alert for each segment whose mean
\* risk exceeds 62, in segment order, then one warning exactly when the High band
\* holds more than 40 rows, the whole cut to its first 8 entries.
C15_AlertsOrdered ==
  (ticks > 0) =>
     LET alerts  == state.alerts
         metrics == state.platformMetrics
         hot     == Escalated(metrics)
         high    == state.riskDistribution[3].users
         full    == Cardinality(hot) + (IF high > CohortAlert THEN 1 ELSE 0)
     IN  /\ Len(alerts) = IF full < AlertCap THEN full ELSE AlertCap
         /\ \A i \in 1..Len(alerts) :
              IF i <= Cardinality(hot)
              THEN \E k \in hot :
                     /\ Cardinality({ j \in hot : j <= k }) = i
                     /\ alerts[i].severity = "critical"
                     /\ alerts[i].subject = platforms[k]
                     /\ alerts[i].avgRisk = metrics[k].avgRisk
                     /\ alerts[i].load = metrics[k].serviceLoad
              ELSE /\ alerts[i].severity = "warning"
                   /\ alerts[i].load = high

\* two segments or more are above 62 and the High band holds more than 40 rows
C15_Witness ==
  /\ ticks > 0
  /\ Cardinality(Escalated(state.platformMetrics)) >= 2
  /\ Cardinality(Escalated(state.platformMetrics)) < Len(platforms)
  /\ state.riskDistribution[3].users > CohortAlert
  /\ state.alerts[Len(state.alerts)].severity = "warning"

\* C16: a tick with a non-empty batch prepends to the live feed one entry made of
\* the last row of its batch, the row at index cursor - 1 modulo datasetSize after
\* the draw, and keeps the 30 newest entries, newest first; a tick with an empty
\* batch leaves the live feed as it was.
C16_LivePulse ==
  [][ ticks' = ticks + 1 =>
        LET n    == Len(mappedRows)
            feed == state.liveFeed
            next == state'.liveFeed
        IN  IF n = 0 THEN next = feed
            ELSE LET row == mappedRows[((cursor' + n - 1) % n) + 1]
                 IN  /\ Len(next) = IF Len(feed) < FeedCap THEN Len(feed) + 1 ELSE FeedCap
                     /\ next[1].platform = row.platform
                     /\ next[1].state = row.state
                     /\ next[1].tier = row.tier
                     /\ next[1].interactionPulse = row.interactionPulse
                     /\ next[1].risk = row.churnRisk
                     /\ next[1].bufferingRate = row.bufferingRate
                     /\ next[1].riskDrivers = row.riskDrivers
                     /\ \A k \in 2..Len(next) : next[k] = feed[k - 1] ]_vars

\* the feed is full, more ticks have run than it holds, and its newest entry
\* differs from the one before
C16_Witness ==
  /\ Len(state.liveFeed) = FeedCap
  /\ ticks > FeedCap
  /\ state.liveFeed[1] # state.liveFeed[2]

\* the window positions of the rows with the given risk, in window order
PositionsOf(risk) ==
  SelectSeq([ i \in 1..Len(streamWindow) |-> i ], LAMBDA i : streamWindow[i].churnRisk = risk)

\* C17: after a tick the leaderboard holds min(14, window size) entries; its k-th
\* entry is the window row that has exactly k - 1 rows before it in the order of
\* descending risk, rows of equal risk in window order (older first).
C17_LeaderboardStable ==
  (ticks > 0 /\ Idle) =>
     LET top == state.topRiskCustomers
     IN  /\ Len(top) = IF Len(streamWindow) < TopRiskCap THEN Len(streamWindow) ELSE TopRiskCap
         /\ \A k \in 1..Len(top) :
              LET above == Cardinality({ i \in 1..Len(streamWindow) :
                                           streamWindow[i].churnRisk > top[k].risk })
                  equal == PositionsOf(top[k].risk)
              IN  /\ above < k
                  /\ k - above <= Len(equal)
                  /\ top[k] = TopRiskOf(streamWindow[equal[k - above]])

\* the leaderboard is full and holds rows of equal risk that differ, drawn from a
\* window with more rows of that risk than fit
C17_Witness ==
  /\ ticks > 0 /\ Idle
  /\ Len(state.topRiskCustomers) = TopRiskCap
  /\ \E k \in 1..(TopRiskCap - 1) :
        /\ state.topRiskCustomers[k].risk = state.topRiskCustomers[k + 1].risk
        /\ state.topRiskCustomers[k].id # state.topRiskCustomers[k + 1].id
  /\ Cardinality({ i \in 1..Len(streamWindow) :
                     streamWindow[i].churnRisk = state.topRiskCustomers[TopRiskCap].risk })
       > TopRiskCap

\* the window positions of the rows of the k-th segment
Members(k) == { i \in 1..Len(streamWindow) : streamWindow[i].platform = platforms[k] }

\* C18: after a tick the per-segment metrics hold one entry for each of the 5
\* segments, in their order; activeUsers is the number of window rows of the
\* segment, and a segment without a row in the window is present with activeUsers,
\* avgRisk, serviceLoad, avgMinutes and satisfaction all 0.
C18_EverySegmentReported ==
  (ticks > 0) =>
     LET metrics == state.platformMetrics
     IN  /\ Len(metrics) = Len(platforms)
         /\ Len(platforms) = 5
         /\ \A k \in 1..Len(platforms) :
              /\ metrics[k].name = platforms[k]
              /\ metrics[k].activeUsers = Cardinality(Members(k))
              /\ Members(k) = {} =>
                   /\ metrics[k].avgRisk = 0 /\ metrics[k].serviceLoad = 0
                   /\ metrics[k].avgMinutes = 0 /\ metrics[k].satisfaction = 0

\* the window holds rows, one segment has none of them and another has some
C18_Witness ==
  /\ ticks > 0 /\ Len(streamWindow) > 0
  /\ \E k \in 1..Len(platforms) : Members(k) = {} /\ state.platformMetrics[k].activeUsers = 0
  /\ \E k \in 1..Len(platforms) : state.platformMetrics[k].activeUsers > 1

\* C19: after a tick, activeSessions is the window size and predictedChurners is
\* the number of window rows whose risk is at least the threshold of the published
\* modelStats; before any dataset was loaded there are no statistics, the window
\* is empty and the count is 0.
C19_KpisMatchWindow ==
  (ticks > 0) =>
     /\ state.kpis.activeSessions = Len(streamWindow)
     /\ IF state.modelStats = Null
        THEN state.kpis.predictedChurners = 0 /\ streamWindow = << >>
        ELSE state.kpis.predictedChurners =
               Cardinality({ k \in 1..Len(streamWindow) :
                               streamWindow[k].churnRisk >= state.modelStats.threshold * Hundred })

\* the window holds a row exactly at the threshold, rows below and rows above it
C19_Witness ==
  /\ ticks > 0 /\ state.modelStats # Null
  /\ \E k \in 1..Len(streamWindow) : streamWindow[k].churnRisk = state.modelStats.threshold * Hundred
  /\ state.kpis.predictedChurners > 0
  /\ state.kpis.predictedChurners < state.kpis.activeSessions

\* the position of the feature with the given name in featureDefs, 0 if none
FeatureAt(name) ==
  IF \E j \in 1..NumFeatures : featureDefs[j].name = name
  THEN CHOOSE j \in 1..NumFeatures : featureDefs[j].name = name
  ELSE 0

Magnitude(v) == IF v < 0 THEN 0 - v ELSE v

\* the drivers of the scored row are the top 5 contributions under logisticModel
DriversAreTopFive(row, logisticModel) ==
  LET x    == featureVector(row.raw)
      c    == [ j \in 1..NumFeatures |->
                  logisticModel.weights[j]
                    * ((x[j] - logisticModel.means[j]) \div logisticModel.stds[j]) ]
      d    == row.riskDrivers
      at   == [ k \in 1..Len(d) |-> FeatureAt(d[k].feature) ]
      \* contribution a is ranked before contribution b
      Before(a, b) == \/ Magnitude(c[a]) > Magnitude(c[b])
                      \/ Magnitude(c[a]) = Magnitude(c[b]) /\ a < b
  IN  /\ Len(d) = DriverCap
      /\ \A k \in 1..Len(d) : at[k] \in 1..NumFeatures
      /\ \A k \in 1..(Len(d) - 1) : Before(at[k], at[k + 1])
      /\ \A j \in 1..NumFeatures :
           (\A k \in 1..Len(d) : at[k] # j) => Before(at[Len(d)], j)
      /\ \A k \in 1..Len(d) :
           /\ (d[k].direction = "up") <=> (c[at[k]] >= 0)
           /\ d[k].direction \in {"up", "down"}
           /\ d[k].impact >= 0
           /\ d[k].impact = RoundDiv(Magnitude(c[at[k]]), Hundred)

\* C20: the riskDrivers of every scored row are the 5 of its 9 contributions
\* (weight * standardised value) that are largest in absolute value, in descending
\* absolute value, equal ones in the order of featureDefs; the direction is "up"
\* exactly when the contribution is >= 0, and the impact is >= 0.
C20_DriversTopFive ==
  \A i \in 1..Len(mappedRows) : DriversAreTopFive(mappedRows[i], model)

\* one scored row is led by a negative Service Calls contribution; another has a
\* positive and a negative contribution followed by contributions of 0 in the
\* order of featureDefs
C20_Witness ==
  /\ \E i \in 1..Len(mappedRows) :
        /\ mappedRows[i].riskDrivers[1].feature = "Service Calls"
        /\ mappedRows[i].riskDrivers[1].direction = "down"
  /\ \E i \in 1..Len(mappedRows) :
        LET d == mappedRows[i].riskDrivers
        IN  /\ d[1].feature = "International Plan" /\ d[1].direction = "up"
            /\ d[2].feature = "Voicemail Plan" /\ d[2].direction = "down"
            /\ d[2].impact > 0 /\ d[2].impact < d[1].impact
            /\ d[3].feature = "Account Tenure" /\ d[3].impact = 0
            /\ d[4].feature = "Voicemail Usage" /\ d[5].feature = "Day Usage"

\* the positions of the alerts of the given severity
AlertsOf(severity) == { i \in 1..Len(state.alerts) : state.alerts[i].severity = severity }

\* C21: with the 5 segments the alerts of a tick are at most 5 critical and at
\* most 1 warning, 6 at most, so the cut to 8 removes none: every segment above 62
\* has its alert, and the warning is there on every tick on which the High band
\* holds more than 40 rows.
C21_CapNeverCuts ==
  (ticks > 0) =>
     /\ Len(state.alerts) <= Len(platforms) + 1
     /\ Len(platforms) + 1 < AlertCap
     /\ Cardinality(AlertsOf("critical")) <= Len(platforms)
     /\ Cardinality(AlertsOf("warning")) <= 1
     /\ Cardinality(AlertsOf("critical")) = Cardinality(Escalated(state.platformMetrics))
     /\ (state.riskDistribution[3].users > CohortAlert) <=> (AlertsOf("warning") # {})

\* every segment is above 62 and the High band holds more than 40 rows: 5 critical
\* alerts and the warning behind them, 6 in all
C21_Witness ==
  /\ ticks > 0
  /\ Cardinality(AlertsOf("critical")) = Len(platforms)
  /\ Len(state.alerts) = Len(platforms) + 1
  /\ AlertsOf("warning") = { Len(state.alerts) }
  /\ state.riskDistribution[3].users > CohortAlert

RECURSIVE SumOf(_, _)
SumOf(counts, i) == IF i > Len(counts) THEN 0 ELSE counts[i] + SumOf(counts, i + 1)

\* C22: for a dataset of N > 0 rows, k >= 1 ticks after the load the window holds
\* min(620, 45 k) rows, its i-th row from the end being the row at index
\* (cursor - i) mod N: a contiguous cyclic run that lost its oldest rows first;
\* every batch held 45 rows, also when N < 45.
C22_WindowIsCyclicRun ==
  (pc # "init_commit" /\ Len(mappedRows) > 0 /\ ticks >= 1) =>
     LET n    == Len(mappedRows)
         size == Len(streamWindow)
     IN  /\ size = IF BatchSize * ticks < WindowCap THEN BatchSize * ticks ELSE WindowCap
         /\ \A i \in 1..size :
              streamWindow[size + 1 - i] = mappedRows[((cursor + WindowCap * n - i) % n) + 1]
         /\ SumOf(drawn, 1) = BatchSize * ticks

\* the window of a dataset smaller than a batch is full, rows have been evicted
\* and the cursor is inside the dataset
C22_Witness ==
  /\ Idle /\ Len(mappedRows) > 1 /\ Len(mappedRows) < BatchSize
  /\ BatchSize * ticks > WindowCap + BatchSize
  /\ Len(streamWindow) = WindowCap
  /\ cursor # 0
  /\ streamWindow[WindowCap] = mappedRows[cursor]

=============================================================================
